---- MODULE Spec2Model ----
(***************************************************************************)
(* Blahut-Arimoto step, denominators, alphas and rates of                  *)
(* backend/bit_baa_fast.cc, with Float modelled as a finite-precision      *)
(* number type that carries the IEEE special values.                       *)
(***************************************************************************)
EXTENDS Integers, Sequences, FiniteSets

(***************************************************************************)
(* Float.  A finite value is an integer count of 1/Scale; NaN and the two  *)
(* infinities are separate values that propagate as IEEE 754 prescribes.   *)
(***************************************************************************)
Scale == 1000

\* Largest finite magnitude (in units of 1/Scale); anything beyond overflows.
MaxFloat == Scale * Scale

Fin(n) == [k |-> "fin", v |-> n]

NaN == [k |-> "nan", v |-> 0]

PInf == [k |-> "pinf", v |-> 0]

NInf == [k |-> "ninf", v |-> 0]

Zero == Fin(0)

One == Fin(Scale)

IsFin(x) == x.k = "fin"

IsNaN(x) == x.k = "nan"

\* overflow of a finite result to an infinity
Norm(n) == IF n > MaxFloat THEN PInf ELSE IF n < -MaxFloat THEN NInf ELSE Fin(n)

\* a / b rounded to nearest, b > 0
RDiv(a, b) == (a + (b \div 2)) \div b

Abs(n) == IF n < 0 THEN -n ELSE n

Sign(x) == IF x.k = "pinf" THEN 1
           ELSE IF x.k = "ninf" THEN -1
           ELSE IF x.v > 0 THEN 1 ELSE IF x.v < 0 THEN -1 ELSE 0

InfOfSign(s) == IF s > 0 THEN PInf ELSE IF s < 0 THEN NInf ELSE NaN

FNeg(x) == IF x.k = "pinf" THEN NInf
           ELSE IF x.k = "ninf" THEN PInf
           ELSE IF x.k = "nan" THEN NaN ELSE Fin(-x.v)

FAdd(x, y) == IF IsNaN(x) \/ IsNaN(y) THEN NaN
              ELSE IF IsFin(x) /\ IsFin(y) THEN Norm(x.v + y.v)
              ELSE IF IsFin(x) THEN y
              ELSE IF IsFin(y) THEN x
              ELSE IF x.k = y.k THEN x ELSE NaN

FSub(x, y) == FAdd(x, FNeg(y))

FMul(x, y) == IF IsNaN(x) \/ IsNaN(y) THEN NaN
              ELSE IF IsFin(x) /\ IsFin(y) THEN Norm(RDiv(x.v * y.v, Scale))
              ELSE InfOfSign(Sign(x) * Sign(y))

\* a zero divisor is +0: the zeros of this program are sums of non-negatives
FDiv(x, y) == IF IsNaN(x) \/ IsNaN(y) THEN NaN
              ELSE IF ~IsFin(x) /\ ~IsFin(y) THEN NaN
              ELSE IF ~IsFin(x) THEN InfOfSign(Sign(x) * (IF Sign(y) < 0 THEN -1 ELSE 1))
              ELSE IF ~IsFin(y) THEN Zero
              ELSE IF y.v = 0 THEN InfOfSign(Sign(x))
              ELSE IF y.v > 0 THEN Norm(RDiv(x.v * Scale, y.v))
              ELSE Norm(RDiv((-x.v) * Scale, -y.v))

\* position on the extended line, for comparisons of non-NaN values
Ord(x) == IF x.k = "pinf" THEN MaxFloat + 1
          ELSE IF x.k = "ninf" THEN -(MaxFloat + 1) ELSE x.v

\* operator< : false whenever an operand is NaN
FLess(x, y) == ~IsNaN(x) /\ ~IsNaN(y) /\ Ord(x) < Ord(y)

(***************************************************************************)
(* log and exp of <cmath>, evaluated to the nearest representable value.   *)
(***************************************************************************)
\* ln 2 at the internal scale of the logarithm
LogScale == 100000

Ln2L == 69315

\* n / Scale = (a / b) * 2^e with a / b in [0.7, 1.4)
RECURSIVE LogReduce(_, _, _)
LogReduce(a, b, e) == IF 5 * a >= 7 * b THEN LogReduce(a, 2 * b, e + 1)
                      ELSE IF 10 * a < 7 * b THEN LogReduce(2 * a, b, e - 1)
                      ELSE <<a, b, e>>

\* (a - b) / (a + b) at LogScale, keeping the product inside the integers
LogY(a, b) == IF Abs(a - b) <= 20000 THEN RDiv((a - b) * LogScale, a + b)
              ELSE IF Abs(a - b) <= 200000 THEN 10 * RDiv((a - b) * (LogScale \div 10), a + b)
              ELSE 100 * RDiv((a - b) * (LogScale \div 100), a + b)

\* ln(n / Scale) in units of 1/Scale, n >= 1: 2 atanh(y) + e ln 2
LogFix(n) == LET r  == LogReduce(n, Scale, 0)
                 y  == LogY(r[1], r[2])
                 y2 == RDiv(y * y, LogScale)
                 y3 == RDiv(y * y2, LogScale)
                 y5 == RDiv(y3 * y2, LogScale)
                 y7 == RDiv(y5 * y2, LogScale)
                 s  == y + RDiv(y3, 3) + RDiv(y5, 5) + RDiv(y7, 7)
             IN  RDiv(2 * s + r[3] * Ln2L, LogScale \div Scale)

Flog(x) == IF x.k = "nan" \/ x.k = "ninf" THEN NaN
           ELSE IF x.k = "pinf" THEN PInf
           ELSE IF x.v < 0 THEN NaN
           ELSE IF x.v = 0 THEN NInf
           ELSE Fin(LogFix(x.v))

ExpScale == 20000

Ln2E == 13863

\* Taylor series of exp(r / ExpScale) at ExpScale, 0 <= r < Ln2E
ExpSeries(r) == LET t2 == RDiv(r * r, 2 * ExpScale)
                    t3 == RDiv(t2 * r, 3 * ExpScale)
                    t4 == RDiv(t3 * r, 4 * ExpScale)
                    t5 == RDiv(t4 * r, 5 * ExpScale)
                    t6 == RDiv(t5 * r, 6 * ExpScale)
                    t7 == RDiv(t6 * r, 7 * ExpScale)
                    t8 == RDiv(t7 * r, 8 * ExpScale)
                IN  ExpScale + r + t2 + t3 + t4 + t5 + t6 + t7 + t8

\* exp(n / Scale): 2^k exp(r) with n / Scale = k ln 2 + r
ExpFix(n) == LET x == n * (ExpScale \div Scale)
                 k == x \div Ln2E
                 r == x - k * Ln2E
             IN  IF k > 10 THEN PInf
                 ELSE IF k < -12 THEN Zero
                 ELSE IF k >= 0 THEN Norm(RDiv(ExpSeries(r) * (2 ^ k), ExpScale \div Scale))
                 ELSE Fin(RDiv(ExpSeries(r), (ExpScale \div Scale) * (2 ^ (-k))))

Fexp(x) == IF x.k = "nan" THEN NaN
           ELSE IF x.k = "pinf" THEN PInf
           ELSE IF x.k = "ninf" THEN Zero
           ELSE ExpFix(x.v)

(***************************************************************************)
(* Inputs.  A codeword is the index of a row (transmitted) or of a column  *)
(* (received) of the channel's transition table.                           *)
(***************************************************************************)
\* transition tables in eighths, one row per transmitted codeword
Channels == << << <<7, 1, 0, 0>>, <<1, 7, 0, 0>>, <<4, 4, 0, 0>> >>,
               << <<8, 0, 0, 0>>, <<2, 6, 0, 0>>, <<0, 0, 4, 4>> >>,
               << <<4, 2, 1, 1>>, <<2, 4, 1, 1>>, <<1, 1, 4, 2>> >>,
               << <<4, 4, 0, 0>>, <<0, 0, 4, 4>>, <<0, 0, 8, 0>> >> >>

NT == Len(Channels[1])

NR == Len(Channels[1][1])

\* entries of an input distribution are multiples of 1 / QGrid
QGrid == 4

\* BAA steps the caller drives after the first
MaxSteps == 1

\* loop iterations past the end of received before the process is killed
MaxOverrun == 1

\* tolerance of the comparisons "within tolerance", in units of 1 / Scale
Tol == Scale \div 200

\* the first m codewords of an alphabet, in order
Prefix(m) == [i \in 1..m |-> i]

RECURSIVE SumInts(_, _)
SumInts(q, n) == IF n = 0 THEN 0 ELSE q[n] + SumInts(q, n - 1)

\* the distributions over n codewords on the grid
QSet(n) == { [i \in 1..n |-> Fin(q[i] * (Scale \div QGrid))] :
               q \in { g \in [1..n -> 0..QGrid] : SumInts(g, n) = QGrid } }

VARIABLES chan, transmitted, received, Q_i,
          pc, status, steps,
          den_recv, rec_iter, log_Wjk_den, overrun, read_oob,
          log_W_jk, log_alphas, alphas, alpha_sum, Q_new,
          rate_old, rate_new, rate_eff,
          split, den_parts, alpha_parts

vars == <<chan, transmitted, received, Q_i, pc, status, steps,
          den_recv, rec_iter, log_Wjk_den, overrun, read_oob,
          log_W_jk, log_alphas, alphas, alpha_sum, Q_new,
          rate_old, rate_new, rate_eff, split, den_parts, alpha_parts>>

(***************************************************************************)
(* The pure functions of bit_baa_fast.cc.                                  *)
(***************************************************************************)
get_bit_transition_prob_fast(t, r) == Fin(Channels[chan][t][r] * (Scale \div 8))

compute_Pjk_row(t, recv) ==
    [j \in 1..Len(recv) |-> get_bit_transition_prob_fast(t, recv[j])]

compute_Pjk_col(trans, r) ==
    [i \in 1..Len(trans) |-> get_bit_transition_prob_fast(trans[i], r)]

\* std::inner_product(a.begin(), a.end(), b.begin(), init), first n terms
RECURSIVE inner_product(_, _, _, _)
inner_product(a, b, n, init) ==
    IF n = 0 THEN init
    ELSE FAdd(inner_product(a, b, n - 1, init), FMul(a[n], b[n]))

compute_Wjk_den(trans, r, Q) ==
    LET probs_col == compute_Pjk_col(trans, r)
    IN  inner_product(probs_col, Q, Len(probs_col), Zero)

\* a slip: the denominator of the first codeword alone
DenEntry_Own(den1, den2) == Flog(den1)

\* the entry pushed twice by one iteration of compute_all_log_Wjk_den
DenEntry(den1, den2) == Flog(FDiv(FAdd(den1, den2), Fin(2 * Scale)))

\* P_jk below this is skipped by compute_log_alpha_k (1E-12 lies strictly
\* between 0 and the smallest positive value of the model)
AlphaEps == 1

\* the loop of compute_log_alpha_k over the first n received codewords
RECURSIVE AlphaLoop(_, _, _, _)
AlphaLoop(probs_row, log_Q_k, log_den, n) ==
    IF n = 0 THEN Zero
    ELSE LET acc  == AlphaLoop(probs_row, log_Q_k, log_den, n - 1)
             P_jk == probs_row[n]
         IN  IF FLess(P_jk, Fin(AlphaEps)) THEN acc
             ELSE FAdd(acc, FMul(P_jk, FSub(FAdd(log_Q_k, Flog(P_jk)), log_den[n])))

compute_log_alpha_k(t, recv, Q_k, log_den) ==
    LET probs_row == compute_Pjk_row(t, recv)
    IN  AlphaLoop(probs_row, Flog(Q_k), log_den, Len(probs_row))

\* a slip: Q_iter never advanced
compute_all_log_alpha_k_FixedQ(trans, recv, Q, log_den) ==
    [i \in 1..Len(trans) |-> compute_log_alpha_k(trans[i], recv, Q[1], log_den)]

compute_all_log_alpha_k(trans, recv, Q, log_den) ==
    [i \in 1..Len(trans) |-> compute_log_alpha_k(trans[i], recv, Q[i], log_den)]

\* std::max_element: the first of the largest, by operator<
RECURSIVE max_element(_, _)
max_element(s, n) ==
    IF n = 1 THEN 1
    ELSE LET largest == max_element(s, n - 1)
         IN  IF FLess(s[largest], s[n]) THEN n ELSE largest

\* std::accumulate(s.begin(), s.end(), 0.0), first n terms
RECURSIVE accumulate(_, _)
accumulate(s, n) == IF n = 0 THEN Zero ELSE FAdd(accumulate(s, n - 1), s[n])

\* a slip: the difference taken the wrong way round
Stabilized_Flipped(la) ==
    LET max_log_alpha == la[max_element(la, Len(la))]
    IN  [i \in 1..Len(la) |-> Fexp(FSub(max_log_alpha, la[i]))]

\* line 19: every log alpha becomes exp(log_alpha - max_log_alpha)
Stabilized(la) ==
    LET max_log_alpha == la[max_element(la, Len(la))]
    IN  [i \in 1..Len(la) |-> Fexp(FSub(la[i], max_log_alpha))]

\* a slip: the division left out
Normalized_Unscaled(al, sum) == al

\* line 24: every alpha is divided by the sum
Normalized(al, sum) == [i \in 1..Len(al) |-> FDiv(al[i], sum)]

\* P_jk below this is skipped by compute_bit_rate_efficient (1E-20)
RateEps == 1

\* the inner loop over j, continuing the one accumulator `rate`
RECURSIVE EffRow(_, _, _, _, _)
EffRow(probs_row, Qk, log_den, n, rate) ==
    IF n = 0 THEN rate
    ELSE LET acc  == EffRow(probs_row, Qk, log_den, n - 1, rate)
             P_jk == probs_row[n]
         IN  IF FLess(P_jk, Fin(RateEps)) THEN acc
             ELSE FAdd(acc, FMul(FMul(Qk, P_jk), FSub(Flog(P_jk), log_den[n])))

\* the outer loop over the first n transmitted codewords
RECURSIVE EffRows(_, _, _, _, _)
EffRows(trans, recv, log_den, Q, n) ==
    IF n = 0 THEN Zero
    ELSE EffRow(compute_Pjk_row(trans[n], recv), Q[n], log_den, Len(recv),
                EffRows(trans, recv, log_den, Q, n - 1))

\* a slip: the denominators left out of the sum
compute_bit_rate_efficient_NoDen(trans, recv, log_den, Q) ==
    EffRows(trans, recv, [j \in 1..Len(recv) |-> Zero], Q, Len(trans))

compute_bit_rate_efficient(trans, recv, log_den, Q) ==
    EffRows(trans, recv, log_den, Q, Len(trans))

\* P_jk below this is skipped by compute_rate (1E-30)
DenseEps == 1

\* a denominator below this, or NaN, is replaced by it in compute_rate (1E-50)
DenFloor == 1

Clamp(den) == IF IsNaN(den) \/ FLess(den, Fin(DenFloor)) THEN Fin(DenFloor) ELSE den

\* the inner loop over j of the rate sum, continuing the accumulator `rate`
RECURSIVE DenseRow(_, _, _, _, _, _)
DenseRow(trans, recv, Q, k, n, rate) ==
    IF n = 0 THEN rate
    ELSE LET acc  == DenseRow(trans, recv, Q, k, n - 1, rate)
             P_jk == get_bit_transition_prob_fast(trans[k], recv[n])
             den  == compute_Wjk_den(trans, recv[n], Q)
         IN  IF FLess(P_jk, Fin(DenseEps)) THEN acc
             ELSE FAdd(acc, FMul(FMul(Q[k], P_jk), Flog(FDiv(P_jk, Clamp(den)))))

RECURSIVE DenseRows(_, _, _, _)
DenseRows(trans, recv, Q, k) ==
    IF k = 0 THEN Zero
    ELSE DenseRow(trans, recv, Q, k, Len(recv), DenseRows(trans, recv, Q, k - 1))

compute_rate(trans, recv, Q) == DenseRows(trans, recv, Q, Len(trans))

(***************************************************************************)
(* The calls.  do_full_baa_step runs first; its call of                    *)
(* compute_all_log_Wjk_den is followed iteration by iteration.  The caller *)
(* then measures the rates and either drives another step or recomputes    *)
(* the denominators or the alphas over sub-ranges.                         *)
(***************************************************************************)
NoVec == << >>

Init == /\ chan \in 1..Len(Channels)
        /\ transmitted \in { Prefix(m) : m \in 0..NT }
        /\ received \in { Prefix(m) : m \in 0..NR }
        /\ Q_i \in IF Len(transmitted) = 0 THEN { NoVec } ELSE QSet(Len(transmitted))
        /\ pc = "step_den"
        /\ status = "running"
        /\ steps = 0
        /\ den_recv = received
        /\ rec_iter = 0
        /\ log_Wjk_den = NoVec
        /\ overrun = 0
        /\ read_oob = FALSE
        /\ log_W_jk = NoVec
        /\ log_alphas = NoVec
        /\ alphas = NoVec
        /\ alpha_sum = Zero
        /\ Q_new = NoVec
        /\ rate_old = Zero
        /\ rate_new = Zero
        /\ rate_eff = Zero
        /\ split = <<0, 0>>
        /\ den_parts = NoVec
        /\ alpha_parts = NoVec

inputs == <<chan, transmitted, received>>

stepVars == <<log_W_jk, log_alphas, alphas, alpha_sum, Q_new>>

rateVars == <<rate_old, rate_new, rate_eff>>

partVars == <<split, den_parts, alpha_parts>>

InDen == pc \in {"step_den", "part1_den", "part2_den"} /\ status = "running"

\* lines 34-40, both reads inside received
DenIter ==
    /\ InDen
    /\ rec_iter + 2 <= Len(den_recv)
    /\ LET den1  == compute_Wjk_den(transmitted, den_recv[rec_iter + 1], Q_i)
           den2  == compute_Wjk_den(transmitted, den_recv[rec_iter + 2], Q_i)
           entry == DenEntry(den1, den2)
       IN  log_Wjk_den' = Append(Append(log_Wjk_den, entry), entry)
    /\ rec_iter' = rec_iter + 2
    /\ UNCHANGED <<inputs, Q_i, pc, status, steps, den_recv, overrun, read_oob,
                   stepVars, rateVars, partVars>>

\* lines 34-40 when rec_iter + 1, or rec_iter itself, is past the end: the
\* reads are undefined; here they yield some codeword and the loop goes on
DenOverrun ==
    /\ InDen
    /\ rec_iter # Len(den_recv)
    /\ rec_iter + 2 > Len(den_recv)
    /\ overrun < MaxOverrun
    /\ \E g1, g2 \in 1..NR :
         /\ rec_iter + 1 <= Len(den_recv) => g1 = den_recv[rec_iter + 1]
         /\ LET den1  == compute_Wjk_den(transmitted, g1, Q_i)
                den2  == compute_Wjk_den(transmitted, g2, Q_i)
                entry == DenEntry(den1, den2)
            IN  log_Wjk_den' = Append(Append(log_Wjk_den, entry), entry)
    /\ rec_iter' = rec_iter + 2
    /\ overrun' = overrun + 1
    /\ read_oob' = TRUE
    /\ UNCHANGED <<inputs, Q_i, pc, status, steps, den_recv,
                   stepVars, rateVars, partVars>>

\* the same undefined reads, ending the process (address sanitizer, fault)
DenCrash ==
    /\ InDen
    /\ rec_iter # Len(den_recv)
    /\ rec_iter + 2 > Len(den_recv)
    /\ status' = "crashed"
    /\ read_oob' = TRUE
    /\ UNCHANGED <<inputs, Q_i, pc, steps, den_recv, rec_iter, log_Wjk_den, overrun,
                   stepVars, rateVars, partVars>>

\* line 41 returning to line 14 of do_full_baa_step
StepDenReturn ==
    /\ pc = "step_den" /\ status = "running"
    /\ rec_iter = Len(den_recv)
    /\ log_W_jk' = log_Wjk_den
    /\ pc' = "alphas"
    /\ UNCHANGED <<inputs, Q_i, status, steps, den_recv, rec_iter, log_Wjk_den,
                   overrun, read_oob, log_alphas, alphas, alpha_sum, Q_new,
                   rateVars, partVars>>

\* line 15
ComputeAlphas ==
    /\ pc = "alphas" /\ status = "running"
    /\ log_alphas' = compute_all_log_alpha_k(transmitted, received, Q_i, log_W_jk)
    /\ pc' = "stabilize"
    /\ UNCHANGED <<inputs, Q_i, status, steps, den_recv, rec_iter, log_Wjk_den,
                   overrun, read_oob, log_W_jk, alphas, alpha_sum, Q_new,
                   rateVars, partVars>>

\* lines 18-20
Stabilize ==
    /\ pc = "stabilize" /\ status = "running"
    /\ Len(log_alphas) > 0
    /\ alphas' = Stabilized(log_alphas)
    /\ pc' = "normalize"
    /\ UNCHANGED <<inputs, Q_i, status, steps, den_recv, rec_iter, log_Wjk_den,
                   overrun, read_oob, log_W_jk, log_alphas, alpha_sum, Q_new,
                   rateVars, partVars>>

\* line 18 on an empty vector dereferences end(): undefined.  Either the
\* process ends, or some value is read; line 19 then visits no element.
StabilizeEmpty ==
    /\ pc = "stabilize" /\ status = "running"
    /\ Len(log_alphas) = 0
    /\ \/ /\ status' = "crashed"
          /\ UNCHANGED <<pc, alphas>>
       \/ /\ alphas' = NoVec
          /\ pc' = "normalize"
          /\ UNCHANGED status
    /\ UNCHANGED <<inputs, Q_i, steps, den_recv, rec_iter, log_Wjk_den,
                   overrun, read_oob, log_W_jk, log_alphas, alpha_sum, Q_new,
                   rateVars, partVars>>

\* lines 23-26
Normalize ==
    /\ pc = "normalize" /\ status = "running"
    /\ alpha_sum' = accumulate(alphas, Len(alphas))
    /\ Q_new' = Normalized(alphas, alpha_sum')
    /\ pc' = "returned"
    /\ UNCHANGED <<inputs, Q_i, status, steps, den_recv, rec_iter, log_Wjk_den,
                   overrun, read_oob, log_W_jk, log_alphas, alphas,
                   rateVars, partVars>>

\* the caller measures the rate before and after the step, in both forms
MeasureRates ==
    /\ pc = "returned" /\ status = "running"
    /\ rate_old' = compute_rate(transmitted, received, Q_i)
    /\ rate_new' = compute_rate(transmitted, received, Q_new)
    /\ rate_eff' = compute_bit_rate_efficient(transmitted, received, log_W_jk, Q_i)
    /\ pc' = "measured"
    /\ UNCHANGED <<inputs, Q_i, status, steps, den_recv, rec_iter, log_Wjk_den,
                   overrun, read_oob, stepVars, partVars>>

\* the caller's loop: the next step starts from the distribution returned
Iterate ==
    /\ pc = "measured" /\ status = "running"
    /\ steps < MaxSteps
    /\ Q_i' = Q_new
    /\ steps' = steps + 1
    /\ pc' = "step_den"
    /\ den_recv' = received
    /\ rec_iter' = 0
    /\ log_Wjk_den' = NoVec
    /\ log_W_jk' = NoVec
    /\ log_alphas' = NoVec
    /\ alphas' = NoVec
    /\ alpha_sum' = Zero
    /\ Q_new' = NoVec
    /\ rate_old' = Zero
    /\ rate_new' = Zero
    /\ rate_eff' = Zero
    /\ UNCHANGED <<inputs, status, overrun, read_oob, partVars>>

\* the denominators again, over received[1..s] and then received[s+1..n]
PartitionDen ==
    /\ pc = "measured" /\ status = "running"
    /\ \E s \in 0..Len(received) :
         /\ split' = <<s, s>>
         /\ den_recv' = SubSeq(received, 1, s)
    /\ rec_iter' = 0
    /\ log_Wjk_den' = NoVec
    /\ pc' = "part1_den"
    /\ UNCHANGED <<inputs, Q_i, status, steps, overrun, read_oob, stepVars,
                   rateVars, den_parts, alpha_parts>>

Part1DenReturn ==
    /\ pc = "part1_den" /\ status = "running"
    /\ rec_iter = Len(den_recv)
    /\ den_parts' = log_Wjk_den
    /\ den_recv' = SubSeq(received, split[1] + 1, Len(received))
    /\ rec_iter' = 0
    /\ log_Wjk_den' = NoVec
    /\ pc' = "part2_den"
    /\ UNCHANGED <<inputs, Q_i, status, steps, overrun, read_oob, stepVars,
                   rateVars, split, alpha_parts>>

Part2DenReturn ==
    /\ pc = "part2_den" /\ status = "running"
    /\ rec_iter = Len(den_recv)
    /\ den_parts' = den_parts \o log_Wjk_den
    /\ pc' = "den_parted"
    /\ UNCHANGED <<inputs, Q_i, status, steps, den_recv, rec_iter, log_Wjk_den,
                   overrun, read_oob, stepVars, rateVars, split, alpha_parts>>

\* the alphas again, over transmitted[1..s1], [s1+1..s2] and [s2+1..n], each
\* with its slice of Q_i and the full received and log_W_jk
PartitionAlpha ==
    /\ pc = "measured" /\ status = "running"
    /\ \E s1, s2 \in 0..Len(transmitted) :
         /\ s1 <= s2
         /\ split' = <<s1, s2>>
         /\ LET n == Len(transmitted)
                part(a, b) == compute_all_log_alpha_k(SubSeq(transmitted, a, b), received,
                                                      SubSeq(Q_i, a, b), log_W_jk)
            IN  alpha_parts' = part(1, s1) \o part(s1 + 1, s2) \o part(s2 + 1, n)
    /\ pc' = "alpha_parted"
    /\ UNCHANGED <<inputs, Q_i, status, steps, den_recv, rec_iter, log_Wjk_den,
                   overrun, read_oob, stepVars, rateVars, den_parts>>

Next == \/ DenIter \/ DenOverrun \/ DenCrash \/ StepDenReturn
        \/ ComputeAlphas \/ Stabilize \/ StabilizeEmpty \/ Normalize
        \/ MeasureRates \/ Iterate
        \/ PartitionDen \/ Part1DenReturn \/ Part2DenReturn \/ PartitionAlpha

Spec == Init /\ [][Next]_vars

(***************************************************************************)
(* Vocabulary of the properties.                                           *)
(***************************************************************************)
\* W_j = sum over i of Q[i] * P(transmitted[i], r), summed from the last
\* term to the first
RECURSIVE MarginalFrom(_, _, _)
MarginalFrom(r, Q, i) ==
    IF i > Len(transmitted) THEN Zero
    ELSE FAdd(FMul(Q[i], get_bit_transition_prob_fast(transmitted[i], r)),
              MarginalFrom(r, Q, i + 1))

Marginal(r) == MarginalFrom(r, Q_i, 1)

\* the other codeword of the pair (1,2), (3,4), ... that position j lies in
Partner(j) == IF j % 2 = 1 THEN j + 1 ELSE j - 1

PairMeanLog(recv, j) ==
    Flog(FDiv(FAdd(Marginal(recv[j]), Marginal(recv[Partner(j)])), Fin(2 * Scale)))

\* non-negative entries that sum to 1 within tolerance
ValidQ(Q) ==
    /\ Len(Q) > 0
    /\ \A i \in 1..Len(Q) : IsFin(Q[i]) /\ Q[i].v >= 0
    /\ LET sum == accumulate(Q, Len(Q))
       IN  IsFin(sum) /\ Abs(sum.v - Scale) <= Tol

\* do_full_baa_step has returned its vector to the caller
StepReturned ==
    pc \in {"returned", "measured", "part1_den", "part2_den", "den_parted", "alpha_parted"}

\* inside do_full_baa_step
InStep == pc \in {"step_den", "alphas", "stabilize", "normalize"}

\* received comes in whole pairs and every denominator of the step is positive
NonDegenerate ==
    /\ Len(transmitted) > 0
    /\ Len(received) % 2 = 0
    /\ \A j \in 1..Len(received) : FLess(Zero, Marginal(received[j]))
                                   \/ FLess(Zero, Marginal(received[Partner(j)]))

\* the two codewords of every received pair are equally likely, and possible
PairsEqualPositive ==
    /\ Len(received) % 2 = 0
    /\ \A j \in 1..Len(received) :
         /\ Marginal(received[j]) = Marginal(received[Partner(j)])
         /\ FLess(Zero, Marginal(received[j]))

\* every transmitted codeword is received as one of the codewords of received
ValidChannel ==
    \A i \in 1..Len(transmitted) :
        LET probs_row == compute_Pjk_row(transmitted[i], received)
        IN  accumulate(probs_row, Len(probs_row)) = One

Near(x, y) == IsFin(x) /\ IsFin(y) /\ Abs(x.v - y.v) <= Tol

C3_AsClaimed ==
    (pc \in {"part1_den", "part2_den", "den_parted"} /\ ValidQ(Q_i)) =>
        /\ status = "running"
        /\ ~read_oob
        /\ pc = "den_parted" => den_parts = log_W_jk

\* checked beside it: a split between two pairs does give the same vector
C3_EvenSplit ==
    (pc = "den_parted" /\ split[1] % 2 = 0) => den_parts = log_W_jk

(***************************************************************************)
(* C4 as claimed: for every length of received the loop reads only inside  *)
(* received, ends, and returns as many entries as received has.            *)
(***************************************************************************)
C4_AsClaimed ==
    (pc \in {"step_den", "part1_den", "part2_den"} /\ ValidQ(Q_i)) =>
        /\ status = "running"
        /\ ~read_oob
        /\ rec_iter <= Len(den_recv)
        /\ rec_iter = Len(den_recv) => Len(log_Wjk_den) = Len(den_recv)

(***************************************************************************)
(* C5 as claimed: when the sum of the stabilized alphas is 0 the step      *)
(* reports a failure; it returns no vector to the caller.                  *)
(***************************************************************************)
C5_AsClaimed ==
    (StepReturned /\ status = "running") => alpha_sum # Zero

(***************************************************************************)
(* C6.  The alphas computed over sub-ranges of transmitted, each with its  *)
(* slice of Q_i and the full received and log_W_jk, concatenate to the     *)
(* vector of the one call on the whole of transmitted, and entry i is the  *)
(* alpha of transmitted[i] and Q_i[i] alone.                               *)
(***************************************************************************)
C6_AlphaPartition ==
    pc = "alpha_parted" =>
        /\ alpha_parts = log_alphas
        /\ \A i \in 1..Len(transmitted) :
             alpha_parts[i] = compute_log_alpha_k(transmitted[i], received, Q_i[i], log_W_jk)

C6_Witness ==
    /\ pc = "alpha_parted"
    /\ 0 < split[1] /\ split[1] < split[2] /\ split[2] < Len(transmitted)
    /\ Q_i[1] # Q_i[2] /\ Q_i[2] # Q_i[3]
    /\ alpha_parts[1] # alpha_parts[2] /\ alpha_parts[2] # alpha_parts[3]

HasZeroEntry ==
    \E i \in 1..Len(transmitted), j \in 1..Len(received) :
        get_bit_transition_prob_fast(transmitted[i], received[j]) = Zero

C9_AsClaimed ==
    (ValidQ(Q_i) /\ ValidChannel /\ HasZeroEntry) =>
        /\ pc \in {"stabilize", "normalize", "returned", "measured"} =>
             \A i \in 1..Len(log_alphas) : IsFin(Fexp(log_alphas[i]))
        /\ pc = "measured" => IsFin(rate_old) /\ IsFin(rate_eff)

(***************************************************************************)
(* C10 as claimed (on a valid channel, with a valid Q_i): after            *)
(* stabilization the largest value is exactly 1 and                        *)
(* every value lies in [0, 1]; the vector returned is the normalization of *)
(* the unshifted exp(log_alpha_i), within tolerance.                       *)
(***************************************************************************)
Unshifted == [i \in 1..Len(log_alphas) |-> Fexp(log_alphas[i])]

C10_AsClaimed ==
    (ValidQ(Q_i) /\ ValidChannel) =>
        /\ pc \in {"normalize", "returned", "measured"} =>
             /\ \E i \in 1..Len(alphas) : alphas[i] = One
             /\ \A i \in 1..Len(alphas) :
                  IsFin(alphas[i]) /\ 0 <= alphas[i].v /\ alphas[i].v <= Scale
        /\ pc \in {"returned", "measured"} =>
             LET direct == Normalized(Unshifted, accumulate(Unshifted, Len(Unshifted)))
             IN  \A i \in 1..Len(Q_new) : Near(Q_new[i], direct[i])
====
